---- MODULE Spec2Model ----
(***************************************************************************)
(* A model of the gptscript command dispatcher, pkg/cli/gptscript.go:      *)
(* option resolution (NewGPTScriptOpts), program acquisition (readProgram),*)
(* tool listing (listTools), the output printer (PrintOutput) and the      *)
(* orchestration in GPTScript.Run, plus Delete.Run of                      *)
(* pkg/cli/credential_delete.go, the second caller of NewGPTScriptOpts.    *)
(*                                                                         *)
(* Texts (Go strings and byte slices) are sequences of one-character       *)
(* strings.  A positional argument is a path: a sequence of components,    *)
(* so that filepath.Base, filepath.Dir and filepath.Abs do what they do.   *)
(* Errors are records [kind, detail]; the nil error is Nil.                *)
(***************************************************************************)
EXTENDS Integers, Sequences, FiniteSets, TLC

VARIABLES
    invoked,     \* the invocation as made: the positional arguments and the
                 \* daemon flag before Run touches them
    r,           \* the GPTScript struct: the flags and the readData cache
    args,        \* Run's positional arguments (rewritten by the UI bootstrap)
    gptOpt,      \* the options value returned by NewGPTScriptOpts
    prg,         \* the program held by Run, or the one listTools prints
    toolInput,   \* the input text (input.FromCLI / PrintOutput's first argument)
    toolOutput,  \* the result text PrintOutput is given
    chatState,   \* Run's local chatState
    pc,          \* position of the handler
    retErr,      \* Run's named result; Pending until it returns
    deferWait,   \* the deferred wait for ctx.Done() is registered
    ctxDone,     \* the invocation context is cancelled
    stdin,       \* bytes still unread on os.Stdin
    stdinReads,  \* number of io.ReadAll(os.Stdin) calls
    calls,       \* collaborator invocations, in order
    io,          \* writes to stdout, stderr and files, in order
    extraEnv,    \* gptScript.ExtraEnv: "set" or "nil"
    nCallbacks   \* program-provider callbacks made by chat.Start

vars == <<invoked, r, args, gptOpt, prg, toolInput, toolOutput, chatState, pc, retErr,
          deferWait, ctxDone, stdin, stdinReads, calls, io, extraEnv, nCallbacks>>

----------------------------------------------------------------------------
(* Bounds of the model *)

\* longest --ports string drawn
MaxPortsLen == 4
\* most tools a listed program declares
MaxTools == 3
\* longest input or result text handed to PrintOutput
MaxTextLen == 2
\* most program-provider callbacks chat.Start makes
MaxCallbacks == 2

----------------------------------------------------------------------------
(* Texts *)

RECURSIVE SeqsUpTo(_, _)
SeqsUpTo(S, n) ==
    IF n = 0 THEN {<<>>}
    ELSE LET shorter == SeqsUpTo(S, n - 1)
         IN  shorter \cup {Append(s, c) : s \in {t \in shorter : Len(t) = n - 1}, c \in S}

RECURSIVE Flatten(_)
Flatten(ss) == IF ss = <<>> THEN <<>> ELSE Head(ss) \o Flatten(Tail(ss))

HasPrefix(s, p) == Len(s) >= Len(p) /\ SubSeq(s, 1, Len(p)) = p

HasSuffix(s, p) == Len(s) >= Len(p) /\ SubSeq(s, Len(s) - Len(p) + 1, Len(s)) = p

\* strings.TrimSpace: drop leading and trailing white space
RECURSIVE TrimSpace(_)
TrimSpace(s) ==
    IF s = <<>> THEN s
    ELSE IF Head(s) = " " THEN TrimSpace(Tail(s))
    ELSE IF s[Len(s)] = " " THEN TrimSpace(SubSeq(s, 1, Len(s) - 1))
    ELSE s

\* strings.Cut(s, sep) for a one-character sep: the text before the first
\* sep, the text after it, and whether sep was found
Cut(s, sep) ==
    LET hits == {i \in 1..Len(s) : s[i] = sep}
    IN  IF hits = {} THEN [before |-> s, after |-> <<>>, found |-> FALSE]
        ELSE LET i == CHOOSE k \in hits : \A j \in hits : k <= j
             IN  [before |-> SubSeq(s, 1, i - 1),
                  after  |-> SubSeq(s, i + 1, Len(s)),
                  found  |-> TRUE]

Digits == {"0", "1", "2", "3", "4", "5", "6", "7", "8", "9"}

DigitVal(c) ==
    CASE c = "0" -> 0 [] c = "1" -> 1 [] c = "2" -> 2 [] c = "3" -> 3
      [] c = "4" -> 4 [] c = "5" -> 5 [] c = "6" -> 6 [] c = "7" -> 7
      [] c = "8" -> 8 [] c = "9" -> 9

RECURSIVE DecimalVal(_)
DecimalVal(s) ==
    IF s = <<>> THEN 0
    ELSE 10 * DecimalVal(SubSeq(s, 1, Len(s) - 1)) + DigitVal(s[Len(s)])

\* strconv.ParseInt(s, 10, 64): an optional sign, then one or more decimal
\* digits.  The texts drawn here are far too short to leave the 64-bit range.
ParseInt(s) ==
    LET signed == s # <<>> /\ Head(s) \in {"+", "-"}
        body   == IF signed THEN Tail(s) ELSE s
        ok     == body # <<>> /\ \A i \in 1..Len(body) : body[i] \in Digits
    IN  IF ~ok THEN [ok |-> FALSE, val |-> 0]
        ELSE [ok |-> TRUE,
              val |-> IF signed /\ Head(s) = "-" THEN 0 - DecimalVal(body)
                      ELSE DecimalVal(body)]

----------------------------------------------------------------------------
(* Errors *)

Nil == [kind |-> "nil", detail |-> <<>>]

\* retErr before the handler has returned
Pending == [kind |-> "pending", detail |-> <<>>]

Errorf(kind, detail) == [kind |-> kind, detail |-> detail]

----------------------------------------------------------------------------
(* Options Resolver *)

\* os.Environ(): PersistentPre has set the binary-location marker, which
\* is empty when system.Bin() is
Environ == <<[name |-> "HOME", value |-> <<"/", "root">>]>>

\* gptscript.Options{}: the zero value
EmptyOptions ==
    [StartPort |-> 0, EndPort |-> 0, Env |-> <<>>, MonitorFactory |-> "nil",
     Authorizer |-> "nil"]

\* the port fields of the result when the lookup of the start bound is dropped
NewGPTScriptOptsNoStartCheck(rr, mfOk) ==
    LET cut   == Cut(rr.Ports, "-")
        start == ParseInt(TrimSpace(cut.before))
        end   == ParseInt(TrimSpace(cut.after))
        base  == [StartPort |-> 0, EndPort |-> 0, Env |-> Environ,
                  MonitorFactory |-> "nil",
                  Authorizer |-> IF rr.Confirm THEN "auth.Authorize" ELSE "nil"]
        withPorts ==
            IF rr.Ports = <<>> THEN [err |-> Nil, opts |-> base]
            ELSE IF cut.after # <<>> /\ ~end.ok
            THEN [err |-> Errorf("invalid port range", rr.Ports), opts |-> EmptyOptions]
            ELSE [err |-> Nil,
                  opts |-> [base EXCEPT !.StartPort = start.val,
                                        !.EndPort = IF cut.after # <<>> THEN end.val ELSE 0]]
    IN  IF withPorts.err # Nil THEN withPorts
        ELSE IF rr.EventsStreamTo = <<>> THEN withPorts
        ELSE IF ~mfOk THEN [err |-> Errorf("monitor.NewFileFactory", rr.EventsStreamTo),
                            opts |-> EmptyOptions]
        ELSE [err |-> Nil, opts |-> [withPorts.opts EXCEPT !.MonitorFactory = "file"]]

\* NewGPTScriptOpts: mfOk is whether monitor.NewFileFactory opens the sink
NewGPTScriptOpts(rr, mfOk) ==
    LET cut   == Cut(rr.Ports, "-")
        start == ParseInt(TrimSpace(cut.before))
        end   == ParseInt(TrimSpace(cut.after))
        base  == [StartPort |-> 0, EndPort |-> 0, Env |-> Environ,
                  MonitorFactory |-> "nil",
                  Authorizer |-> IF rr.Confirm THEN "auth.Authorize" ELSE "nil"]
        withPorts ==
            IF rr.Ports = <<>> THEN [err |-> Nil, opts |-> base]
            ELSE IF ~start.ok
            THEN [err |-> Errorf("invalid port range", rr.Ports), opts |-> EmptyOptions]
            ELSE IF cut.after # <<>> /\ ~end.ok
            THEN [err |-> Errorf("invalid port range", rr.Ports), opts |-> EmptyOptions]
            ELSE [err |-> Nil,
                  opts |-> [base EXCEPT !.StartPort = start.val,
                                        !.EndPort = IF cut.after # <<>> THEN end.val ELSE 0]]
    IN  IF withPorts.err # Nil THEN withPorts
        ELSE IF rr.EventsStreamTo = <<>> THEN withPorts
        ELSE IF ~mfOk THEN [err |-> Errorf("monitor.NewFileFactory", rr.EventsStreamTo),
                            opts |-> EmptyOptions]
        ELSE [err |-> Nil, opts |-> [withPorts.opts EXCEPT !.MonitorFactory = "file"]]

----------------------------------------------------------------------------
(* The GPTScript struct and the idle values of the state *)

\* the zero value of the struct after flag parsing and PersistentPre, which
\* leaves Quiet non-nil
R0 ==
    [UI |-> FALSE, Server |-> FALSE, ListModels |-> FALSE, ListTools |-> FALSE,
     Daemon |-> FALSE, Assemble |-> FALSE, ForceChat |-> FALSE,
     DisableTUI |-> FALSE, Debug |-> FALSE, DebugMessages |-> FALSE,
     Confirm |-> FALSE, Quiet |-> TRUE,
     Ports |-> <<>>, EventsStreamTo |-> <<>>, Output |-> <<>>,
     ChatState |-> <<>>, SaveChatStateFile |-> <<>>, SubTool |-> <<>>,
     readData |-> <<>>]

\* types.Program{}: what readProgram returns for an empty argument list
EmptyProgram ==
    [Name |-> <<>>, source |-> <<>>, loaded |-> FALSE, chat |-> FALSE,
     blocking |-> FALSE, tools |-> <<>>]

\* everything but r, pc, retErr and gptOpt at its value before any handler ran
RestIdle ==
    /\ invoked = [args |-> <<>>, Daemon |-> FALSE]
    /\ args = <<>>
    /\ prg = EmptyProgram
    /\ toolInput = <<>>
    /\ toolOutput = <<>>
    /\ chatState = <<>>
    /\ deferWait = FALSE
    /\ ctxDone = FALSE
    /\ stdin = <<>>
    /\ stdinReads = 0
    /\ calls = <<>>
    /\ io = <<>>
    /\ extraEnv = "set"
    /\ nCallbacks = 0

----------------------------------------------------------------------------
(* Delete.Run of credential_delete.go: resolve the options, then remove *)

PortChars == {"1", "2", "-", "+", " ", "x"}

InitOpts ==
    /\ r \in {[R0 EXCEPT !.Ports = p, !.EventsStreamTo = e, !.Confirm = c] :
                p \in SeqsUpTo(PortChars, MaxPortsLen),
                e \in {<<>>, <<"f", "d">>},
                c \in BOOLEAN}
    /\ gptOpt = EmptyOptions
    /\ pc = "delete"
    /\ retErr = Pending
    /\ RestIdle

DeleteRun ==
    /\ pc = "delete"
    /\ \E mfOk \in BOOLEAN, step \in {"config", "store", "remove", "ok"} :
         LET res == NewGPTScriptOpts(r, mfOk)
         IN  /\ gptOpt' = res.opts
             /\ retErr' = IF res.err # Nil THEN res.err
                          ELSE IF step = "config"
                          THEN Errorf("failed to read CLI config", <<>>)
                          ELSE IF step = "store"
                          THEN Errorf("failed to get credentials store", <<>>)
                          ELSE IF step = "remove"
                          THEN Errorf("failed to remove credential", <<>>)
                          ELSE Nil
             /\ calls' = IF res.err = Nil /\ step \in {"remove", "ok"}
                         THEN Append(calls, [op |-> "store.Remove"])
                         ELSE calls
    /\ pc' = "done"
    /\ UNCHANGED <<invoked, r, args, prg, toolInput, toolOutput, chatState, deferWait,
                   ctxDone, stdin, stdinReads, io, extraEnv, nCallbacks>>

SpecOpts == InitOpts /\ [][DeleteRun]_vars

\* the handler returned and option resolution was not what failed
OptsResolved ==
    /\ pc = "done"
    /\ retErr.kind \notin {"invalid port range", "monitor.NewFileFactory"}

\* the text of the range string before its first '-' and the text after it
RangeStart(p) ==
    IF \E i \in 1..Len(p) : p[i] = "-"
    THEN SubSeq(p, 1, (CHOOSE i \in 1..Len(p) : p[i] = "-" /\ \A j \in 1..(i - 1) : p[j] # "-") - 1)
    ELSE p

RangeEnd(p) == SubSeq(p, Len(RangeStart(p)) + 2, Len(p))

\* C4: for a non-empty port-range string, an invalid integer before the
\* first '-' or an invalid non-empty text after it gives the error naming
\* the range string and the empty options value; otherwise, when resolution
\* succeeds, the start port is the parsed start, and the end port is the
\* parsed end, or 0 when the end part is absent or empty.
PortRangeParsed ==
    (pc = "done" /\ r.Ports # <<>>) =>
        LET s == ParseInt(TrimSpace(RangeStart(r.Ports)))
            e == ParseInt(TrimSpace(RangeEnd(r.Ports)))
            bad == ~s.ok \/ (RangeEnd(r.Ports) # <<>> /\ ~e.ok)
        IN  /\ bad => /\ retErr = Errorf("invalid port range", r.Ports)
                      /\ gptOpt = EmptyOptions
            /\ ~bad => retErr.kind # "invalid port range"
            /\ OptsResolved =>
                  /\ gptOpt.StartPort = s.val
                  /\ gptOpt.EndPort = IF RangeEnd(r.Ports) = <<>> THEN 0 ELSE e.val

\* a range string with a dash and no valid leading integer was rejected
PortRangeRejected ==
    /\ pc = "done"
    /\ r.Ports = <<"x", "-", "1">>
    /\ retErr.kind = "invalid port range"
    /\ gptOpt = EmptyOptions

\* C5: options returned without error have end port >= start port when the
\* range string supplies both bounds.
PortRangeOrdered ==
    (OptsResolved /\ RangeEnd(r.Ports) # <<>>) => gptOpt.EndPort >= gptOpt.StartPort

----------------------------------------------------------------------------
(* Tool listing *)

\* byte order of the characters tool and program names are drawn from
Ord(c) == CASE c = "a" -> 97 [] c = "b" -> 98 [] c = "z" -> 122

\* Go's s < t on strings: byte-wise lexicographic order
RECURSIVE StrLess(_, _)
StrLess(s, t) ==
    IF t = <<>> THEN FALSE
    ELSE IF s = <<>> THEN TRUE
    ELSE IF Head(s) # Head(t) THEN Ord(Head(s)) < Ord(Head(t))
    ELSE StrLess(Tail(s), Tail(t))

\* the comparison function handed to sort.Slice
ToolLess(t, u) == StrLess(t.Name, u.Name)

\* sort.Slice on a slice of at most 12 elements is the insertion sort of
\* Go's sort package: "for i := a+1; i < b; i++ { for j := i; j > a &&
\* less(j, j-1); j-- { swap(j, j-1) } }".  The lists drawn here are shorter
\* than 12; on longer ones sort.Slice is not stable.
RECURSIVE SinkDown(_, _)
SinkDown(ts, j) ==
    IF j > 1 /\ ToolLess(ts[j], ts[j - 1])
    THEN SinkDown([ts EXCEPT ![j] = ts[j - 1], ![j - 1] = ts[j]], j - 1)
    ELSE ts

RECURSIVE InsertionSort(_, _)
InsertionSort(ts, i) ==
    IF i > Len(ts) THEN ts ELSE InsertionSort(SinkDown(ts, i), i + 1)

SortSlice(ts) == InsertionSort(ts, 2)

\* the loop body: the copy of the tool that tool.String() is called on
Displayed(tool, p) ==
    [tool EXCEPT !.Name = IF tool.Name = <<>> THEN p.Name ELSE tool.Name,
                 !.Instructions = <<>>]

\* types.Tool.String(): the name line, then the instructions if any
ToolString(tool) ==
    <<"N", "a", "m", "e", ":">> \o tool.Name
      \o (IF tool.Instructions = <<>> THEN <<>> ELSE <<"\n">> \o tool.Instructions)

RECURSIVE Join(_, _)
Join(lines, sep) ==
    IF lines = <<>> THEN <<>>
    ELSE IF Len(lines) = 1 THEN lines[1]
    ELSE lines[1] \o sep \o Join(Tail(lines), sep)

\* listTools: the collaborator calls it makes (gptScript.ListTools, then
\* tool.String() on each tool in sorted order) and the text it prints
ListTools(p) ==
    LET sorted == SortSlice(p.tools)
        shown  == [i \in 1..Len(sorted) |-> Displayed(sorted[i], p)]
    IN  [calls |-> <<[op |-> "ListTools", tool |-> p]>>
                     \o [i \in 1..Len(shown) |-> [op |-> "Tool.String", tool |-> shown[i]]],
         io    |-> <<[fd |-> "stdout", name |-> <<>>,
                      text |-> Join([i \in 1..Len(shown) |-> ToolString(shown[i])],
                                    <<"\n", "-", "-", "-", "\n">>) \o <<"\n">>]>>]

ToolNames == {<<>>, <<"a">>, <<"a", "b">>, <<"b">>}

\* declaration lists: the ID of a tool is its place in the declaration
ToolLists ==
    {[i \in 1..Len(ts) |-> [ID |-> i, Name |-> ts[i][1], Instructions |-> ts[i][2]]] :
        ts \in SeqsUpTo(ToolNames \X {<<>>, <<"i">>}, MaxTools)}

InitList ==
    /\ r = R0
    /\ prg \in {[EmptyProgram EXCEPT !.Name = n, !.loaded = TRUE, !.tools = ts] :
                  n \in {<<"a">>, <<"z">>}, ts \in ToolLists}
    /\ gptOpt = [EmptyOptions EXCEPT !.Env = Environ]
    /\ pc = "listTools"
    /\ retErr = Pending
    /\ invoked = [args |-> <<>>, Daemon |-> FALSE]
    /\ args = <<>>
    /\ toolInput = <<>>
    /\ toolOutput = <<>>
    /\ chatState = <<>>
    /\ deferWait = FALSE
    /\ ctxDone = FALSE
    /\ stdin = <<>>
    /\ stdinReads = 0
    /\ calls = <<>>
    /\ io = <<>>
    /\ extraEnv = "set"
    /\ nCallbacks = 0

ListToolsCall ==
    /\ pc = "listTools"
    /\ calls' = calls \o ListTools(prg).calls
    /\ io' = io \o ListTools(prg).io
    /\ retErr' = Nil
    /\ pc' = "done"
    /\ UNCHANGED <<invoked, r, args, gptOpt, prg, toolInput, toolOutput, chatState, deferWait,
                   ctxDone, stdin, stdinReads, extraEnv, nCallbacks>>

SpecList == InitList /\ [][ListToolsCall]_vars

\* the tools tool.String() was called on, in order
Listed == SelectSeq(calls, LAMBDA c : c.op = "Tool.String")

\* C8: the listing shows the tools in ascending order of the displayed
\* name, tools of equal name in declaration order; an unnamed tool is shown
\* under the program's name; no instructions text is printed.
ListingSortedByDisplayedName ==
    pc = "done" =>
        /\ Len(Listed) = Len(prg.tools)
        /\ \A i, j \in 1..Len(Listed) :
             i < j => /\ ~StrLess(Listed[j].tool.Name, Listed[i].tool.Name)
                      /\ Listed[i].tool.Name = Listed[j].tool.Name
                           => Listed[i].tool.ID < Listed[j].tool.ID
        /\ \A i \in 1..Len(Listed) :
             /\ Listed[i].tool.Instructions = <<>>
             /\ Listed[i].tool.Name =
                  (IF prg.tools[Listed[i].tool.ID].Name = <<>> THEN prg.Name
                   ELSE prg.tools[Listed[i].tool.ID].Name)

----------------------------------------------------------------------------
(* Output Printer *)

InputLabel == <<"\n", "I", "N", "P", "U", "T", ":", "\n", "\n">>

OutputLabel == <<"\n", "O", "U", "T", "P", "U", "T", ":", "\n", "\n">>

ToFile(rr) == rr.Output # <<>> /\ rr.Output # <<"-">>

\* the printer when it ends the output with a newline of its own every time
PrintOutputAlwaysNewline(rr, in, out, writeOk) ==
    IF ToFile(rr)
    THEN IF writeOk
         THEN [err |-> Nil, io |-> <<[fd |-> "file", name |-> rr.Output, text |-> out]>>]
         ELSE [err |-> Errorf("os.WriteFile", rr.Output), io |-> <<>>]
    ELSE [err |-> Nil,
          io  |-> (IF ~rr.Quiet
                   THEN (IF in # <<>>
                         THEN <<[fd |-> "stderr", name |-> <<>>, text |-> InputLabel],
                                [fd |-> "stderr", name |-> <<>>, text |-> in \o <<"\n">>]>>
                         ELSE <<>>)
                        \o <<[fd |-> "stderr", name |-> <<>>, text |-> OutputLabel]>>
                   ELSE <<>>)
                  \o <<[fd |-> "stdout", name |-> <<>>, text |-> out]>>
                  \o <<[fd |-> "stdout", name |-> <<>>, text |-> <<"\n">>]>>]

\* PrintOutput: the error it returns and the writes it makes, in order;
\* writeOk is whether os.WriteFile succeeds
PrintOutput(rr, in, out, writeOk) ==
    IF ToFile(rr)
    THEN IF writeOk
         THEN [err |-> Nil, io |-> <<[fd |-> "file", name |-> rr.Output, text |-> out]>>]
         ELSE [err |-> Errorf("os.WriteFile", rr.Output), io |-> <<>>]
    ELSE [err |-> Nil,
          io  |-> (IF ~rr.Quiet
                   THEN (IF in # <<>>
                         THEN <<[fd |-> "stderr", name |-> <<>>, text |-> InputLabel],
                                [fd |-> "stderr", name |-> <<>>, text |-> in \o <<"\n">>]>>
                         ELSE <<>>)
                        \o <<[fd |-> "stderr", name |-> <<>>, text |-> OutputLabel]>>
                   ELSE <<>>)
                  \o <<[fd |-> "stdout", name |-> <<>>, text |-> out]>>
                  \o (IF ~HasSuffix(out, <<"\n">>)
                      THEN <<[fd |-> "stdout", name |-> <<>>, text |-> <<"\n">>]>>
                      ELSE <<>>)]

TextChars == {"a", "\n"}

InitPrint ==
    /\ r \in {[R0 EXCEPT !.Quiet = q, !.Output = o] :
                q \in BOOLEAN, o \in {<<>>, <<"-">>, <<"o">>}}
    /\ toolInput \in SeqsUpTo(TextChars, MaxTextLen)
    /\ toolOutput \in SeqsUpTo(TextChars, MaxTextLen)
    /\ gptOpt = [EmptyOptions EXCEPT !.Env = Environ]
    /\ pc = "print"
    /\ retErr = Pending
    /\ invoked = [args |-> <<>>, Daemon |-> FALSE]
    /\ args = <<>>
    /\ prg = EmptyProgram
    /\ chatState = <<>>
    /\ deferWait = FALSE
    /\ ctxDone = FALSE
    /\ stdin = <<>>
    /\ stdinReads = 0
    /\ calls = <<>>
    /\ io = <<>>
    /\ extraEnv = "set"
    /\ nCallbacks = 0

PrintOutputCall ==
    /\ pc = "print"
    /\ \E writeOk \in BOOLEAN :
         LET res == PrintOutput(r, toolInput, toolOutput, writeOk)
         IN  /\ io' = io \o res.io
             /\ retErr' = res.err
    /\ calls' = Append(calls, [op |-> "PrintOutput", tool |-> EmptyProgram])
    /\ pc' = "done"
    /\ UNCHANGED <<invoked, r, args, gptOpt, prg, toolInput, toolOutput, chatState, deferWait,
                   ctxDone, stdin, stdinReads, extraEnv, nCallbacks>>

SpecPrint == InitPrint /\ [][PrintOutputCall]_vars

\* everything written to the stream fd, in order
Written(fd) ==
    Flatten([i \in 1..Len(SelectSeq(io, LAMBDA w : w.fd = fd)) |->
                SelectSeq(io, LAMBDA w : w.fd = fd)[i].text])

----------------------------------------------------------------------------
(* Paths and positional arguments *)

\* the standard-input sentinel "-"
Stdin == <<"-">>

\* a script given by a relative path, and a trailing input argument
ProgFile == <<"dir", "prog.gpt">>

InputArg == <<"hello">>

\* env.VarOrDefault("GPTSCRIPT_CHAT_UI_TOOL", "github.com/gptscript-ai/ui@v2")
UITool == <<"github.com/gptscript-ai/ui@v2">>

\* os.Getwd()
Cwd == <<"/", "work">>

\* filepath.Abs, filepath.Dir and filepath.Base on component sequences
Abs(path) == IF Head(path) = "/" THEN path ELSE Cwd \o path

Dir(path) == IF Len(path) = 1 THEN <<".">> ELSE SubSeq(path, 1, Len(path) - 1)

Base(path) == <<path[Len(path)]>>

\* "--file=" + filepath.Base(path)
FileFlag(path) == <<"--file=">> \o Base(path)

\* strings.Join(args[1:], " ") and input.FromArgs: the trailing arguments
\* separated by single spaces
RECURSIVE JoinArgs(_)
JoinArgs(as) ==
    IF as = <<>> THEN <<>>
    ELSE IF Len(as) = 1 THEN as[1]
    ELSE as[1] \o <<" ">> \o JoinArgs(Tail(as))

----------------------------------------------------------------------------
(* Program Acquirer *)

\* what the loader returns for a source: the tools are those of the script
Loaded(source, chat) ==
    [Name |-> <<"z">>, source |-> source, loaded |-> TRUE, chat |-> chat,
     blocking |-> FALSE,
     tools |-> <<[ID |-> 1, Name |-> <<>>, Instructions |-> <<"i">>],
                 [ID |-> 2, Name |-> <<"a">>, Instructions |-> <<"i">>]>>]

\* types.Program.SetBlocking
SetBlocking(p) == [p EXCEPT !.blocking = TRUE]

\* readProgram(args): the program and error it returns, the cache and the
\* stream it leaves, the count of io.ReadAll(os.Stdin) calls and the loader
\* call it makes.  readOk: io.ReadAll succeeds; loadOk: the loader accepts
\* the source; chat: the loaded program declares chat capability.
ReadProgram(rr, as, in, reads, readOk, loadOk, chat) ==
    IF as = <<>>
    THEN [prg |-> EmptyProgram, err |-> Nil, readData |-> rr.readData,
          stdin |-> in, reads |-> reads, calls |-> <<>>]
    ELSE IF as[1] = Stdin
    THEN IF Len(rr.readData) > 0
         THEN [prg |-> IF loadOk THEN Loaded(rr.readData, chat) ELSE EmptyProgram,
               err |-> IF loadOk THEN Nil ELSE Errorf("loader.ProgramFromSource", <<>>),
               readData |-> rr.readData, stdin |-> in, reads |-> reads,
               calls |-> <<[op |-> "loader.ProgramFromSource", source |-> rr.readData]>>]
         ELSE IF ~readOk
         THEN [prg |-> EmptyProgram, err |-> Errorf("io.ReadAll", <<>>),
               readData |-> rr.readData, stdin |-> in, reads |-> reads + 1,
               calls |-> <<>>]
         ELSE [prg |-> IF loadOk THEN Loaded(in, chat) ELSE EmptyProgram,
               err |-> IF loadOk THEN Nil ELSE Errorf("loader.ProgramFromSource", <<>>),
               readData |-> in, stdin |-> <<>>, reads |-> reads + 1,
               calls |-> <<[op |-> "loader.ProgramFromSource", source |-> in]>>]
    ELSE [prg |-> IF loadOk THEN Loaded(as[1], chat) ELSE EmptyProgram,
          err |-> IF loadOk THEN Nil ELSE Errorf("loader.Program", as[1]),
          readData |-> rr.readData, stdin |-> in, reads |-> reads,
          calls |-> <<[op |-> "loader.Program", source |-> as[1]]>>]

----------------------------------------------------------------------------
(* GPTScript.Run *)

NullToken == <<"n", "u", "l", "l">>

InlineState == <<"{", "}">>

StateFile == <<"s", ".", "j">>

\* the contents of the chat-state file
StateFileData == <<"{", "s", "}">>

StdoutMarker == <<"s", "t", "d", "o", "u", "t">>

\* the result text of the run collaborator, and the serialized chat response
RunResult == <<"o", "k">>

ChatResponse == <<"{", "r", "}">>

BinEnv == [name |-> "GPTSCRIPT_BIN", value |-> <<"/", "bin", "gptscript">>]

ScriptsPath(dir) == [name |-> "SCRIPTS_PATH", value |-> dir]

\* one collaborator invocation, with the environment and daemon flag in
\* force when it is made
Call(op, tool, as, state, in) ==
    [op |-> op, tool |-> tool, args |-> as, env |-> gptOpt.Env,
     daemon |-> r.Daemon, state |-> state, input |-> in]

InitRun ==
    /\ r \in {[R0 EXCEPT !.UI = ui, !.Server = sv, !.ListModels = lm, !.ListTools = lt,
                         !.Daemon = dm, !.Assemble = as, !.ForceChat = fc,
                         !.DisableTUI = nt, !.SaveChatStateFile = sf, !.ChatState = cs,
                         !.Ports = po, !.Output = ou] :
                ui \in BOOLEAN, sv \in BOOLEAN, lm \in BOOLEAN, lt \in BOOLEAN,
                dm \in BOOLEAN, as \in BOOLEAN, fc \in BOOLEAN, nt \in BOOLEAN,
                sf \in {<<>>, <<"-">>, StdoutMarker, <<"f">>},
                cs \in {<<>>, NullToken, InlineState, StateFile},
                po \in {<<>>, <<"x">>},
                ou \in {<<>>, <<"o">>}}
    /\ args \in {<<>>, <<Stdin>>, <<Stdin, InputArg>>, <<ProgFile>>, <<ProgFile, InputArg>>}
    /\ invoked = [args |-> args, Daemon |-> r.Daemon]
    /\ stdin \in {<<>>, <<"p">>}
    /\ (args = <<>> \/ args[1] # Stdin) => stdin = <<>>
    /\ gptOpt = EmptyOptions
    /\ prg = EmptyProgram
    /\ toolInput = <<>>
    /\ toolOutput = <<>>
    /\ chatState = <<>>
    /\ pc = "start"
    /\ retErr = Pending
    /\ deferWait = FALSE
    /\ ctxDone = FALSE
    /\ stdinReads = 0
    /\ calls = <<>>
    /\ io = <<>>
    /\ extraEnv = "set"
    /\ nCallbacks = 0

\* a return statement of Run: the deferred function then waits for the
\* context when it is registered and the result is nil
Return(err) ==
    /\ retErr' = err
    /\ pc' = IF deferWait /\ err = Nil THEN "waiting" ELSE "done"

\* gptOpt, err := r.NewGPTScriptOpts()
RunNewOpts ==
    /\ pc = "start"
    /\ \E mfOk \in BOOLEAN :
         LET res == NewGPTScriptOpts(r, mfOk)
         IN  /\ gptOpt' = res.opts
             /\ IF res.err # Nil THEN Return(res.err)
                ELSE pc' = "ui" /\ UNCHANGED retErr
    /\ UNCHANGED <<invoked, r, args, prg, toolInput, toolOutput, chatState, deferWait, ctxDone,
                   stdin, stdinReads, calls, io, extraEnv, nCallbacks>>

\* the UI argument rewrite when the trailing arguments are kept
UIArgsKeepingInput(as) ==
    LET pre == <<UITool>> \o as
    IN  IF Len(pre) > 1
        THEN <<pre[1], FileFlag(pre[2])>> \o SubSeq(pre, 3, Len(pre))
        ELSE pre

\* the argument list the UI block leaves: the script is replaced by a
\* --file flag; the rewritten list has two elements, so the test
\* len(args) > 2 that follows the rewrite appends nothing
UIArgs(as) ==
    LET pre == <<UITool>> \o as
        cut == <<pre[1], FileFlag(pre[2])>>
    IN  IF Len(pre) > 1
        THEN IF Len(cut) > 2 THEN cut \o SubSeq(cut, 3, Len(cut)) ELSE cut
        ELSE pre

\* if r.UI { ... }: absOk, cwdOk: filepath.Abs and os.Getwd succeed;
\* binSet: os.Getenv(system.BinEnvVar) is not empty
RunUIBootstrap ==
    /\ pc = "ui"
    /\ IF ~r.UI
       THEN /\ pc' = "server"
            /\ UNCHANGED <<r, args, gptOpt, retErr>>
       ELSE \E absOk \in BOOLEAN, cwdOk \in BOOLEAN, binSet \in BOOLEAN :
              LET pre == <<UITool>> \o args
              IN  IF Len(pre) > 1
                  THEN IF pre[2] = Stdin
                       THEN /\ Return(Errorf("chat UI only supports files", <<>>))
                            /\ UNCHANGED <<r, args, gptOpt>>
                       ELSE IF ~absOk
                       THEN /\ Return(Errorf("cannot determine absolute path", pre[2]))
                            /\ UNCHANGED <<r, args, gptOpt>>
                       ELSE /\ gptOpt' =
                                 [gptOpt EXCEPT !.Env =
                                     Append(gptOpt.Env, ScriptsPath(Dir(Abs(pre[2]))))
                                       \o (IF binSet THEN <<>> ELSE <<BinEnv>>)]
                            /\ args' = UIArgs(args)
                            /\ r' = [r EXCEPT !.Daemon = TRUE]
                            /\ pc' = "server"
                            /\ UNCHANGED retErr
                  ELSE IF ~cwdOk
                  THEN /\ Return(Errorf("could not determine current working directory", <<>>))
                       /\ UNCHANGED <<r, args, gptOpt>>
                  ELSE /\ gptOpt' = [gptOpt EXCEPT !.Env = Append(gptOpt.Env, ScriptsPath(Cwd))]
                       /\ args' = UIArgs(args)
                       /\ r' = [r EXCEPT !.Daemon = TRUE]
                       /\ pc' = "server"
                       /\ UNCHANGED retErr
    /\ UNCHANGED <<invoked, prg, toolInput, toolOutput, chatState, deferWait, ctxDone,
                   stdin, stdinReads, calls, io, extraEnv, nCallbacks>>

\* the server check when the list-models flag is looked at first
RunServerAfterListModels ==
    /\ pc = "server"
    /\ IF ~r.Server \/ r.ListModels
       THEN /\ pc' = "new"
            /\ UNCHANGED <<retErr, calls>>
       ELSE \E newOk \in BOOLEAN, startOk \in BOOLEAN :
              IF ~newOk
              THEN /\ calls' = Append(calls, Call("server.New", prg, args, <<>>, <<>>))
                   /\ Return(Errorf("server.New", <<>>))
              ELSE /\ calls' = calls \o <<Call("server.New", prg, args, <<>>, <<>>),
                                          Call("server.Start", prg, args, <<>>, <<>>),
                                          Call("server.Close", prg, args, <<>>, <<>>)>>
                   /\ Return(IF startOk THEN Nil ELSE Errorf("server.Start", <<>>))
    /\ UNCHANGED <<invoked, r, args, gptOpt, prg, toolInput, toolOutput, chatState, deferWait,
                   ctxDone, stdin, stdinReads, io, extraEnv, nCallbacks>>

\* if r.Server { server.New; defer s.Close; return s.Start(ctx) }
RunServer ==
    /\ pc = "server"
    /\ IF ~r.Server
       THEN /\ pc' = "new"
            /\ UNCHANGED <<retErr, calls>>
       ELSE \E newOk \in BOOLEAN, startOk \in BOOLEAN :
              IF ~newOk
              THEN /\ calls' = Append(calls, Call("server.New", prg, args, <<>>, <<>>))
                   /\ Return(Errorf("server.New", <<>>))
              ELSE /\ calls' = calls \o <<Call("server.New", prg, args, <<>>, <<>>),
                                          Call("server.Start", prg, args, <<>>, <<>>),
                                          Call("server.Close", prg, args, <<>>, <<>>)>>
                   /\ Return(IF startOk THEN Nil ELSE Errorf("server.Start", <<>>))
    /\ UNCHANGED <<invoked, r, args, gptOpt, prg, toolInput, toolOutput, chatState, deferWait,
                   ctxDone, stdin, stdinReads, io, extraEnv, nCallbacks>>

\* gptScript, err := gptscript.New(&gptOpt)
RunNewGPTScript ==
    /\ pc = "new"
    /\ \E ok \in BOOLEAN :
         /\ calls' = Append(calls, Call("gptscript.New", prg, args, <<>>, <<>>))
         /\ IF ok THEN pc' = "listModels" /\ UNCHANGED retErr
            ELSE Return(Errorf("gptscript.New", <<>>))
    /\ UNCHANGED <<invoked, r, args, gptOpt, prg, toolInput, toolOutput, chatState, deferWait,
                   ctxDone, stdin, stdinReads, io, extraEnv, nCallbacks>>

\* if r.ListModels { return r.listModels(ctx, gptScript, args) }
RunListModels ==
    /\ pc = "listModels"
    /\ IF ~r.ListModels
       THEN /\ pc' = "read"
            /\ UNCHANGED <<retErr, calls, io>>
       ELSE \E ok \in BOOLEAN :
              /\ calls' = Append(calls, Call("ListModels", prg, args, <<>>, <<>>))
              /\ io' = IF ok
                       THEN Append(io, [fd |-> "stdout", name |-> <<>>,
                                        text |-> <<"m", "\n">>])
                       ELSE io
              /\ Return(IF ok THEN Nil ELSE Errorf("ListModels", <<>>))
    /\ UNCHANGED <<invoked, r, args, gptOpt, prg, toolInput, toolOutput, chatState, deferWait,
                   ctxDone, stdin, stdinReads, extraEnv, nCallbacks>>

\* prg, err := r.readProgram(ctx, gptScript, args)
RunReadProgram ==
    /\ pc = "read"
    /\ \E readOk \in BOOLEAN, loadOk \in BOOLEAN, chat \in BOOLEAN :
         LET res == ReadProgram(r, args, stdin, stdinReads, readOk, loadOk, chat)
         IN  /\ r' = [r EXCEPT !.readData = res.readData]
             /\ stdin' = res.stdin
             /\ stdinReads' = res.reads
             /\ calls' = calls \o res.calls
             /\ prg' = res.prg
             /\ IF res.err # Nil THEN Return(res.err)
                ELSE pc' = "daemon" /\ UNCHANGED retErr
    /\ UNCHANGED <<invoked, args, gptOpt, toolInput, toolOutput, chatState, deferWait, ctxDone,
                   io, extraEnv, nCallbacks>>

\* if r.Daemon { prg = prg.SetBlocking(); defer func() { ... }() }
RunDaemon ==
    /\ pc = "daemon"
    /\ IF r.Daemon
       THEN prg' = SetBlocking(prg) /\ deferWait' = TRUE
       ELSE UNCHANGED <<prg, deferWait>>
    /\ pc' = "listTools"
    /\ UNCHANGED <<invoked, r, args, gptOpt, toolInput, toolOutput, chatState, retErr, ctxDone,
                   stdin, stdinReads, calls, io, extraEnv, nCallbacks>>

\* the list-tools check when the listing is not returned from
RunListToolsNoReturn ==
    /\ pc = "listTools"
    /\ IF ~r.ListTools
       THEN UNCHANGED <<calls, io>>
       ELSE /\ calls' = calls \o <<Call("listTools", prg, args, <<>>, <<>>)>>
                                 \o ListTools(prg).calls
            /\ io' = io \o ListTools(prg).io
    /\ pc' = "help"
    /\ UNCHANGED <<invoked, r, args, gptOpt, prg, toolInput, toolOutput, chatState, retErr,
                   deferWait, ctxDone, stdin, stdinReads, extraEnv, nCallbacks>>

\* if r.ListTools { return r.listTools(ctx, gptScript, prg) }
RunListTools ==
    /\ pc = "listTools"
    /\ IF ~r.ListTools
       THEN /\ pc' = "help"
            /\ UNCHANGED <<retErr, calls, io>>
       ELSE /\ calls' = calls \o <<Call("listTools", prg, args, <<>>, <<>>)>>
                                 \o ListTools(prg).calls
            /\ io' = io \o ListTools(prg).io
            /\ Return(Nil)
    /\ UNCHANGED <<invoked, r, args, gptOpt, prg, toolInput, toolOutput, chatState, deferWait,
                   ctxDone, stdin, stdinReads, extraEnv, nCallbacks>>

\* the help check when it gives way to the assemble flag
RunHelpUnlessAssemble ==
    /\ pc = "help"
    /\ IF Len(args) # 0 \/ r.Assemble
       THEN /\ pc' = "assemble"
            /\ UNCHANGED <<retErr, calls>>
       ELSE /\ calls' = Append(calls, Call("cmd.Help", prg, args, <<>>, <<>>))
            /\ Return(Nil)
    /\ UNCHANGED <<invoked, r, args, gptOpt, prg, toolInput, toolOutput, chatState, deferWait,
                   ctxDone, stdin, stdinReads, io, extraEnv, nCallbacks>>

\* if len(args) == 0 { return cmd.Help() }
RunHelp ==
    /\ pc = "help"
    /\ IF Len(args) # 0
       THEN /\ pc' = "assemble"
            /\ UNCHANGED <<retErr, calls>>
       ELSE /\ calls' = Append(calls, Call("cmd.Help", prg, args, <<>>, <<>>))
            /\ Return(Nil)
    /\ UNCHANGED <<invoked, r, args, gptOpt, prg, toolInput, toolOutput, chatState, deferWait,
                   ctxDone, stdin, stdinReads, io, extraEnv, nCallbacks>>

\* if r.Assemble { ...; return assemble.Assemble(prg, out) }
RunAssemble ==
    /\ pc = "assemble"
    /\ IF ~r.Assemble
       THEN /\ pc' = "input"
            /\ UNCHANGED <<retErr, calls>>
       ELSE \E createOk \in BOOLEAN, ok \in BOOLEAN :
              IF ToFile(r) /\ ~createOk
              THEN /\ Return(Errorf("opening", r.Output))
                   /\ UNCHANGED calls
              ELSE /\ calls' = Append(calls, Call("assemble.Assemble", prg, args, <<>>, <<>>))
                   /\ Return(IF ok THEN Nil ELSE Errorf("assemble.Assemble", <<>>))
    /\ UNCHANGED <<invoked, r, args, gptOpt, prg, toolInput, toolOutput, chatState, deferWait,
                   ctxDone, stdin, stdinReads, io, extraEnv, nCallbacks>>

\* toolInput, err := input.FromCLI(r.Input, args)
RunInput ==
    /\ pc = "input"
    /\ \E ok \in BOOLEAN :
         /\ calls' = Append(calls, Call("input.FromCLI", prg, args, <<>>, <<>>))
         /\ IF ok
            THEN /\ toolInput' = JoinArgs(Tail(args))
                 /\ pc' = "chatState"
                 /\ UNCHANGED retErr
            ELSE /\ Return(Errorf("input.FromCLI", <<>>))
                 /\ UNCHANGED toolInput
    /\ UNCHANGED <<invoked, r, args, gptOpt, prg, toolOutput, chatState, deferWait, ctxDone,
                   stdin, stdinReads, io, extraEnv, nCallbacks>>

\* the chatState local of Run: the contents of the file named by the
\* token when the token is neither empty, "null" nor opening with '{';
\* readOk is whether os.ReadFile succeeds
MaterializeChatState(token, readOk) ==
    IF token # <<>> /\ token # NullToken /\ ~HasPrefix(token, <<"{">>)
    THEN IF readOk THEN [state |-> StateFileData, err |-> Nil]
         ELSE [state |-> <<>>, err |-> Errorf("reading", token)]
    ELSE [state |-> <<>>, err |-> Nil]

\* var chatState string; if r.ChatState != "" && ... { os.ReadFile }
RunChatState ==
    /\ pc = "chatState"
    /\ \E readOk \in BOOLEAN :
         LET res == MaterializeChatState(r.ChatState, readOk)
         IN  /\ chatState' = res.state
             /\ IF res.err # Nil THEN Return(res.err)
                ELSE pc' = "stateless" /\ UNCHANGED retErr
    /\ UNCHANGED <<invoked, r, args, gptOpt, prg, toolInput, toolOutput, deferWait, ctxDone,
                   stdin, stdinReads, calls, io, extraEnv, nCallbacks>>

\* if r.SaveChatStateFile == "-" || r.SaveChatStateFile == "stdout" { ... }
RunStatelessChat ==
    /\ pc = "stateless"
    /\ IF r.SaveChatStateFile # <<"-">> /\ r.SaveChatStateFile # StdoutMarker
       THEN /\ pc' = "chat"
            /\ UNCHANGED <<retErr, calls, io, toolOutput>>
       ELSE \E outcome \in {"chat fails", "marshal fails", "ok"}, writeOk \in BOOLEAN :
              LET chatCall == Call("gptScript.Chat", prg, args, chatState, toolInput)
                  res == PrintOutput(r, toolInput, ChatResponse, writeOk)
              IN  IF outcome = "chat fails"
                  THEN /\ calls' = Append(calls, chatCall)
                       /\ Return(Errorf("gptScript.Chat", <<>>))
                       /\ UNCHANGED <<io, toolOutput>>
                  ELSE IF outcome = "marshal fails"
                  THEN /\ calls' = Append(calls, chatCall)
                       /\ Return(Errorf("json.Marshal", <<>>))
                       /\ UNCHANGED <<io, toolOutput>>
                  ELSE /\ calls' = calls \o <<chatCall,
                                              Call("PrintOutput", prg, args, chatState, toolInput)>>
                       /\ toolOutput' = ChatResponse
                       /\ io' = io \o res.io
                       /\ Return(res.err)
    /\ UNCHANGED <<invoked, r, args, gptOpt, prg, toolInput, chatState, deferWait, ctxDone,
                   stdin, stdinReads, extraEnv, nCallbacks>>

\* if prg.IsChat() || r.ForceChat { tui.Run(...) or chat.Start(...) }
RunChat ==
    /\ pc = "chat"
    /\ IF ~(prg.chat \/ r.ForceChat)
       THEN /\ pc' = "run"
            /\ UNCHANGED <<retErr, calls>>
       ELSE IF ~r.DisableTUI /\ ~r.Debug /\ ~r.DebugMessages
       THEN \E ok \in BOOLEAN :
              /\ calls' = Append(calls, Call("tui.Run", EmptyProgram, args, chatState,
                                             JoinArgs(Tail(args))))
              /\ Return(IF ok THEN Nil ELSE Errorf("tui.Run", <<>>))
       ELSE /\ calls' = Append(calls, Call("chat.Start", EmptyProgram, args, chatState,
                                           toolInput))
            /\ pc' = "chatting"
            /\ UNCHANGED retErr
    /\ UNCHANGED <<invoked, r, args, gptOpt, prg, toolInput, toolOutput, chatState, deferWait,
                   ctxDone, stdin, stdinReads, io, extraEnv, nCallbacks>>

\* chat.Start calls its program provider:
\* func() (types.Program, error) { return r.readProgram(ctx, gptScript, args) }
ChatProgramCallback ==
    /\ pc = "chatting"
    /\ nCallbacks < MaxCallbacks
    /\ \E readOk \in BOOLEAN, loadOk \in BOOLEAN :
         LET res == ReadProgram(r, args, stdin, stdinReads, readOk, loadOk, prg.chat)
         IN  /\ r' = [r EXCEPT !.readData = res.readData]
             /\ stdin' = res.stdin
             /\ stdinReads' = res.reads
             /\ calls' = calls \o res.calls
                           \o <<Call("chat.program", res.prg, args, chatState, toolInput)>>
    /\ nCallbacks' = nCallbacks + 1
    /\ UNCHANGED <<invoked, args, gptOpt, prg, toolInput, toolOutput, chatState, pc, retErr,
                   deferWait, ctxDone, io, extraEnv>>

\* chat.Start returns
ChatStartReturn ==
    /\ pc = "chatting"
    /\ \E ok \in BOOLEAN : Return(IF ok THEN Nil ELSE Errorf("chat.Start", <<>>))
    /\ UNCHANGED <<invoked, r, args, gptOpt, prg, toolInput, toolOutput, chatState, deferWait,
                   ctxDone, stdin, stdinReads, calls, io, extraEnv, nCallbacks>>

\* the plain run when the printer is called before the error is looked at
RunPlainPrintsOnError ==
    /\ pc = "run"
    /\ extraEnv' = IF r.UI THEN "nil" ELSE extraEnv
    /\ \E ok \in BOOLEAN, writeOk \in BOOLEAN :
         LET runCall == Call("gptScript.Run", prg, args, chatState, toolInput)
             res == PrintOutput(r, toolInput, IF ok THEN RunResult ELSE <<>>, writeOk)
         IN  /\ calls' = calls \o <<runCall,
                                    Call("PrintOutput", prg, args, chatState, toolInput)>>
             /\ toolOutput' = IF ok THEN RunResult ELSE <<>>
             /\ io' = io \o res.io
             /\ Return(IF ok THEN res.err ELSE Errorf("gptScript.Run", <<>>))
    /\ UNCHANGED <<invoked, r, args, gptOpt, prg, toolInput, chatState, deferWait, ctxDone,
                   stdin, stdinReads, nCallbacks>>

\* if r.UI { gptScript.ExtraEnv = nil }; s, err := gptScript.Run(...);
\* return r.PrintOutput(toolInput, s)
RunPlain ==
    /\ pc = "run"
    /\ extraEnv' = IF r.UI THEN "nil" ELSE extraEnv
    /\ \E ok \in BOOLEAN, writeOk \in BOOLEAN :
         LET runCall == Call("gptScript.Run", prg, args, chatState, toolInput)
             res == PrintOutput(r, toolInput, RunResult, writeOk)
         IN  IF ~ok
             THEN /\ calls' = Append(calls, runCall)
                  /\ Return(Errorf("gptScript.Run", <<>>))
                  /\ UNCHANGED <<io, toolOutput>>
             ELSE /\ calls' = calls \o <<runCall,
                                         Call("PrintOutput", prg, args, chatState, toolInput)>>
                  /\ toolOutput' = RunResult
                  /\ io' = io \o res.io
                  /\ Return(res.err)
    /\ UNCHANGED <<invoked, r, args, gptOpt, prg, toolInput, chatState, deferWait, ctxDone,
                   stdin, stdinReads, nCallbacks>>

\* the invocation context is cancelled from outside.  Run looks at the
\* context only in its deferred wait, so a cancellation at any earlier
\* moment is the same to it as one that arrives while it waits.
CtxCancel ==
    /\ pc = "waiting"
    /\ ~ctxDone
    /\ ctxDone' = TRUE
    /\ UNCHANGED <<invoked, r, args, gptOpt, prg, toolInput, toolOutput, chatState, pc, retErr,
                   deferWait, stdin, stdinReads, calls, io, extraEnv, nCallbacks>>

\* defer func() { if retErr == nil { <-ctx.Done() } }()
DaemonWaitReturn ==
    /\ pc = "waiting"
    /\ ctxDone
    /\ pc' = "done"
    /\ UNCHANGED <<invoked, r, args, gptOpt, prg, toolInput, toolOutput, chatState, retErr,
                   deferWait, ctxDone, stdin, stdinReads, calls, io, extraEnv, nCallbacks>>

Next ==
    \/ RunNewOpts
    \/ RunUIBootstrap
    \/ RunServer
    \/ RunNewGPTScript
    \/ RunListModels
    \/ RunReadProgram
    \/ RunDaemon
    \/ RunListTools
    \/ RunHelp
    \/ RunAssemble
    \/ RunInput
    \/ RunChatState
    \/ RunStatelessChat
    \/ RunChat
    \/ ChatProgramCallback
    \/ ChatStartReturn
    \/ RunPlain
    \/ CtxCancel
    \/ DaemonWaitReturn

Spec == InitRun /\ [][Next]_vars

----------------------------------------------------------------------------
(* Properties of Run *)

Called(op) == \E i \in 1..Len(calls) : calls[i].op = op

\* the collaborators that load, list or execute something
ModeOps ==
    {"ListModels", "listTools", "ListTools", "Tool.String", "cmd.Help",
     "assemble.Assemble", "gptScript.Chat", "tui.Run", "chat.Start", "chat.program",
     "gptScript.Run", "PrintOutput"}

LoaderOps == {"loader.Program", "loader.ProgramFromSource"}

\* Run returned one of the errors of the UI block
UIFailed ==
    retErr.kind \in {"chat UI only supports files", "cannot determine absolute path",
                     "could not determine current working directory"}

\* what an invocation with the server flag comes to: the server collaborator
\* is constructed, started unless construction fails, its result is what Run
\* returns, and nothing is loaded, read, listed or executed
ServerServed ==
    /\ Called("server.New")
    /\ Called("server.Start") <=> retErr.kind # "server.New"
    /\ retErr.kind \in {"nil", "server.New", "server.Start"}
    /\ stdinReads = 0
    /\ prg = EmptyProgram
    /\ \A i \in 1..Len(calls) : calls[i].op \notin ModeOps \cup LoaderOps \cup {"gptscript.New"}

\* C1 as claimed: whenever the server flag is set and option resolution
\* succeeds, whatever the other flags and arguments, the server is started
\* and its result returned, and nothing is loaded, read, listed or run.
ServerFirst ==
    (pc = "done" /\ r.Server /\ OptsResolved) => ServerServed

\* C1 as amended: the same, for the invocations in which the UI block,
\* which runs before the server check when the UI flag is set, does not
\* return an error.
ServerFirstAfterUI ==
    (pc = "done" /\ r.Server /\ OptsResolved /\ ~UIFailed) => ServerServed

\* the server was started although UI, list-models, list-tools, daemon,
\* assemble and force-chat were all set and a script was named
ServerStartedOverOtherModes ==
    /\ pc = "done"
    /\ r.Server /\ r.UI /\ r.ListModels /\ r.ListTools /\ r.Assemble /\ r.ForceChat
    /\ invoked.Daemon
    /\ invoked.args = <<ProgFile>>
    /\ Called("server.Start")
    /\ retErr = Nil

\* what the Help mode comes to: usage is displayed, Run returns nil, and no
\* listing, assembling, chat or run collaborator is invoked
HelpShown ==
    /\ Called("cmd.Help")
    /\ retErr = Nil
    /\ \A i \in 1..Len(calls) : calls[i].op \notin ModeOps \ {"cmd.Help"}

\* Run returned, and neither option resolution, the UI block nor the
\* construction of the engine failed
SetUpOk ==
    /\ pc = "done"
    /\ OptsResolved
    /\ ~UIFailed
    /\ retErr.kind # "gptscript.New"

\* C2 as claimed: with no positional argument and neither list-models nor
\* server set, whatever the remaining flags, the mode is Help.
HelpFallback ==
    (SetUpOk /\ invoked.args = <<>> /\ ~r.ListModels /\ ~r.Server) => HelpShown

\* C2 as amended: with no positional argument and none of list-models,
\* server, list-tools and UI set, whatever the daemon, assemble, force-chat
\* and save-chat-state flags, the mode is Help.
HelpFallbackWithoutListToolsOrUI ==
    (SetUpOk /\ invoked.args = <<>> /\ ~r.ListModels /\ ~r.Server
       /\ ~r.ListTools /\ ~r.UI) => HelpShown

\* help was shown although daemon, assemble and force-chat were set and the
\* chat state was to go to standard output
HelpShownOverOtherModes ==
    /\ pc = "done"
    /\ invoked.args = <<>>
    /\ r.Daemon /\ r.Assemble /\ r.ForceChat
    /\ r.SaveChatStateFile = <<"-">>
    /\ Called("cmd.Help")
    /\ retErr = Nil

\* the sources handed to loader.ProgramFromSource, in order
StdinSources == SelectSeq(calls, LAMBDA c : c.op = "loader.ProgramFromSource")

\* C3: standard input is read at most once, however often readProgram is
\* called and whatever the stream holds, and every acquisition uses the
\* bytes of the first read.
StdinReadOnce ==
    /\ stdinReads <= 1
    /\ \A i \in 1..Len(StdinSources) : StdinSources[i].source = StdinSources[1].source

\* the prior state the chat-state token stands for
PriorState(token) ==
    IF token = <<>> \/ token = NullToken THEN <<>>
    ELSE IF Head(token) = "{" THEN token
    ELSE StateFileData

\* C6: the chat collaborator (stateless chat, TUI, interactive chat) is
\* given no prior state for an empty or "null" token, the token itself when
\* it opens with '{', and otherwise the contents of the file it names; when
\* that file cannot be read Run returns the error and invokes no chat or run
\* collaborator.
ChatStateMaterialized ==
    /\ \A i \in 1..Len(calls) :
          calls[i].op \in {"gptScript.Chat", "tui.Run", "chat.Start"}
             => calls[i].state = PriorState(r.ChatState)
    /\ (pc = "done" /\ retErr.kind = "reading") =>
          \A i \in 1..Len(calls) :
             calls[i].op \notin {"gptScript.Chat", "tui.Run", "chat.Start", "chat.program",
                                 "gptScript.Run", "PrintOutput"}

\* C7: with the daemon flag set every step after the load is handed the
\* blocking variant of the loaded program; Run returns nil only once the
\* context is cancelled, returns once it is, and returns an error of the
\* mode without waiting.
DaemonHoldsProcess ==
    /\ \A i \in 1..Len(calls) :
          (/\ r.Daemon
           /\ calls[i].op \in {"listTools", "assemble.Assemble", "gptScript.Chat",
                               "gptScript.Run", "chat.program"}
           /\ calls[i].tool.loaded)
             => calls[i].tool.blocking
    /\ (pc = "done" /\ deferWait /\ retErr = Nil) => ctxDone
    /\ (pc = "waiting" /\ ctxDone) => ENABLED DaemonWaitReturn
    /\ pc = "waiting" => retErr = Nil

\* the modes that the precedence puts before the UI bootstrap
EarlierModeOps ==
    {"server.New", "ListModels", "listTools", "cmd.Help", "assemble.Assemble",
     "gptScript.Chat", "tui.Run", "chat.Start"}

\* C10 as claimed: a mode that precedes the UI bootstrap sees the original
\* arguments, environment and daemon flag also when the UI flag is set, and
\* the extra environment is cleared only on the way to the plain run.
UIBootstrapInPlace ==
    /\ \A i \in 1..Len(calls) :
          calls[i].op \in EarlierModeOps =>
             /\ calls[i].args = invoked.args
             /\ calls[i].env = Environ
             /\ calls[i].daemon = invoked.Daemon
    /\ extraEnv = "nil" => r.UI /\ pc \in {"waiting", "done"}

\* the argument list a mode sees under the UI flag
UIRewritten ==
    IF invoked.args = <<>> THEN <<UITool>>
    ELSE <<UITool, <<"--file=", invoked.args[1][Len(invoked.args[1])]>>>>

\* C10 as amended: the UI bootstrap comes first.  With the UI flag set every
\* mode, Server and ListModels included, sees the rewritten arguments (the
\* UI tool, then --file=<script name>, the trailing arguments dropped), the
\* environment with SCRIPTS_PATH injected and the daemon flag forced, and
\* Help is never selected; without the flag every mode sees the invocation
\* as made.  Only the clearing of the extra environment waits for the plain
\* run.
UIBootstrapFirst ==
    /\ \A i \in 1..Len(calls) :
          calls[i].op \in EarlierModeOps \cup {"gptScript.Run"} =>
             IF r.UI
             THEN /\ calls[i].args = UIRewritten
                  /\ calls[i].daemon
                  /\ calls[i].op # "cmd.Help"
                  /\ \E k \in 1..Len(calls[i].env) :
                        /\ calls[i].env[k].name = "SCRIPTS_PATH"
                        /\ calls[i].env[k].value =
                             (IF invoked.args = <<>> THEN Cwd
                              ELSE Cwd \o <<"dir">>)
             ELSE /\ calls[i].args = invoked.args
                  /\ calls[i].env = Environ
                  /\ calls[i].daemon = invoked.Daemon
    /\ extraEnv = "nil" => r.UI /\ pc \in {"waiting", "done"} /\ Called("gptScript.Run")

\* with the UI flag and the server flag set, the server was built with the
\* injected environment
ServerSawUIEnvironment ==
    /\ r.UI /\ r.Server
    /\ ~invoked.Daemon
    /\ invoked.args = <<ProgFile, InputArg>>
    /\ \E i \in 1..Len(calls) :
          /\ calls[i].op = "server.New"
          /\ calls[i].daemon
          /\ Len(calls[i].env) > Len(Environ)

\* the invocation of a mode's collaborator; the server mode is entered
\* with server.New, the interactive chat with tui.Run or chat.Start
ModeEntryOps ==
    {"server.New", "ListModels", "listTools", "cmd.Help", "assemble.Assemble",
     "gptScript.Chat", "tui.Run", "chat.Start", "gptScript.Run"}

\* how many times Run has entered a mode
ModeCount == Len(SelectSeq(calls, LAMBDA c : c.op \in ModeEntryOps))

\* the body of Run is over: it has returned or waits for the context
BodyOver == pc \in {"waiting", "done"}

OptionErrors == {"invalid port range", "monitor.NewFileFactory"}

LoadErrors == {"io.ReadAll", "loader.Program", "loader.ProgramFromSource"}

\* the errors of the UI block, of the construction of the engine and of the
\* creation of the assemble output file
SetUpErrors ==
    {"chat UI only supports files", "cannot determine absolute path",
     "could not determine current working directory", "gptscript.New", "opening"}

\* the failures of the surroundings among them, which no flag decides
SurroundingsFailed ==
    retErr.kind \in {"cannot determine absolute path",
                     "could not determine current working directory", "gptscript.New",
                     "opening"}

NoModeFlag ==
    /\ ~r.UI /\ ~r.Server /\ ~r.ListModels /\ ~r.ListTools /\ ~r.Daemon
    /\ ~r.Assemble /\ ~r.ForceChat
    /\ r.SaveChatStateFile \notin {<<"-">>, StdoutMarker}

\* the run collaborator was invoked once, with the loaded program and the
\* input of the command line
PlainRunOnce ==
    /\ Len(SelectSeq(calls, LAMBDA c : c.op = "gptScript.Run")) = 1
    /\ \A i \in 1..Len(calls) :
          calls[i].op = "gptScript.Run" =>
             /\ calls[i].input = JoinArgs(Tail(invoked.args))
             /\ calls[i].tool = prg
    /\ ModeCount = 1

\* C11 as claimed: Run enters at most one mode, at most once, and exactly
\* one when no option, load, input or chat-state error occurs; with no mode
\* flag, "-" as the source and a program without chat capability that mode
\* is the plain run, invoked once with the resolved input.  (Failures of
\* the surroundings are left out of the cases looked at.)
ExactlyOneMode ==
    /\ ModeCount <= 1
    /\ (BodyOver /\ ~SurroundingsFailed
          /\ retErr.kind \notin OptionErrors \cup LoadErrors \cup {"input.FromCLI", "reading"})
         => ModeCount = 1

\* C11 as amended: Run enters at most one mode, at most once, and exactly
\* one when no option, UI-block, engine-construction, load, output-file,
\* input or chat-state error occurs; with no mode flag, "-" as the source
\* and a program without chat capability that mode is the plain run,
\* invoked once with the resolved input.
ExactlyOneModeUnlessSetUpFails ==
    /\ ModeCount <= 1
    /\ (BodyOver
          /\ retErr.kind \notin OptionErrors \cup SetUpErrors \cup LoadErrors
                                  \cup {"input.FromCLI", "reading"})
         => /\ ModeCount = 1
            /\ (NoModeFlag /\ invoked.args # <<>> /\ invoked.args[1] = Stdin /\ ~prg.chat)
                  => PlainRunOnce

\* the plain run of a script read from standard input, with an input
PlainRunFromStdin ==
    /\ pc = "done"
    /\ NoModeFlag
    /\ invoked.args = <<Stdin, InputArg>>
    /\ r.readData = <<"p">>
    /\ retErr = Nil
    /\ PlainRunOnce

CountOf(op) == Len(SelectSeq(calls, LAMBDA c : c.op = op))

\* the flow came to the stateless-chat check: the target is "-" or
\* "stdout", no earlier mode was entered and nothing failed before it
StatelessChatSelected ==
    /\ BodyOver
    /\ r.SaveChatStateFile \in {<<"-">>, StdoutMarker}
    /\ \A i \in 1..Len(calls) :
          calls[i].op \notin {"server.New", "ListModels", "listTools", "cmd.Help",
                              "assemble.Assemble"}
    /\ retErr.kind \notin OptionErrors \cup SetUpErrors \cup LoadErrors
                            \cup {"input.FromCLI", "reading"}

\* one chat turn on the prior state `state`, its response printed as the
\* result, and no interactive chat, TUI or plain run
OneChatTurn(state) ==
    /\ CountOf("gptScript.Chat") = 1
    /\ \A i \in 1..Len(calls) :
          calls[i].op = "gptScript.Chat" =>
             /\ calls[i].state = state
             /\ calls[i].input = toolInput
             /\ calls[i].tool = prg
    /\ \A i \in 1..Len(calls) :
          calls[i].op \notin {"tui.Run", "chat.Start", "chat.program", "gptScript.Run"}
    /\ retErr.kind \notin {"gptScript.Chat", "json.Marshal"} =>
          /\ CountOf("PrintOutput") = 1
          /\ toolOutput = ChatResponse
          /\ retErr = Nil => \E k \in 1..Len(io) : io[k].text = ChatResponse

\* C12: with the save target "-" or "stdout" and no earlier mode selected,
\* Run performs exactly one chat turn with the materialized prior state and
\* the input, prints the serialized response through the Output Printer and
\* never enters the interactive chat or the TUI, also for a chat program or
\* under the force-chat flag.
StatelessChatFirst ==
    StatelessChatSelected => OneChatTurn(PriorState(r.ChatState))

\* the part of C12 that is about precedence, with the prior state as Run
\* holds it in its chatState local
StatelessChatBeforeInteractive ==
    StatelessChatSelected => OneChatTurn(chatState)

\* the errors that end Run before its result is printed
ErrorsBeforeOutput ==
    OptionErrors \cup LoadErrors \cup {"input.FromCLI", "gptScript.Run", "gptScript.Chat"}

\* C13: when the run collaborator, the stateless chat, option resolution,
\* the load or the input fails, Run returns that error at once, also in
\* daemon mode; the Output Printer is not invoked and nothing is written to
\* a file or a stream; the failing step is the last one and was made once.
NoOutputOnError ==
    /\ retErr.kind \in ErrorsBeforeOutput =>
          /\ pc = "done"
          /\ ~Called("PrintOutput")
          /\ io = <<>>
          /\ toolOutput = <<>>
    /\ retErr.kind \in OptionErrors => calls = <<>>
    /\ retErr.kind \in LoadErrors =>
          /\ ModeCount = 0
          /\ CountOf("loader.Program") + CountOf("loader.ProgramFromSource") <= 1
          /\ stdinReads <= 1
          /\ calls # <<>> /\ calls[Len(calls)].op \in LoaderOps \cup {"gptscript.New"}
    /\ retErr.kind \in {"input.FromCLI", "gptScript.Run", "gptScript.Chat"} =>
          /\ calls[Len(calls)].op = retErr.kind
          /\ CountOf(retErr.kind) = 1
    /\ retErr.kind \in {"gptScript.Run", "gptScript.Chat"} => ModeCount = 1
    /\ \A i \in 1..Len(calls) :
          calls[i].op = "PrintOutput" =>
             /\ i > 1
             /\ calls[i - 1].op \in {"gptScript.Run", "gptScript.Chat"}
             /\ retErr.kind \in {"nil", "os.WriteFile"}

\* the run collaborator failed in daemon mode with a file as output target:
\* Run returned its error without waiting and wrote nothing
RunFailedInDaemonMode ==
    /\ pc = "done"
    /\ retErr.kind = "gptScript.Run"
    /\ deferWait
    /\ ~ctxDone
    /\ r.Output = <<"o">>
    /\ io = <<>>

====
